---- MODULE Spec2Model ----
(***************************************************************************)
(* Voice-command accessibility extension: the content script               *)
(* (extension/content/content.js), its API client and voice manager        *)
(* (extension/utils/api.js), and the backend's element finder              *)
(* (server/routes/element-finder.js with the Groq service).                *)
(*                                                                         *)
(* The specifications of this module:                                      *)
(*   Spec             one page: DOM changes, extraction passes, the        *)
(*                    background summary fetch, overlapping voice-command  *)
(*                    cycles, the backend's replies                        *)
(*   LoadSpec         one page load under any stored flag and settings,    *)
(*                    the DOM left alone                                   *)
(*   FairLoadSpec     LoadSpec with weak fairness on the steps the         *)
(*                    browser's event loop and timers guarantee (not on    *)
(*                    the backend's replies)                               *)
(*   AnsweredLoadSpec FairLoadSpec with every backend request answered     *)
(*   TabsSpec         several content-script initialisations (tabs or      *)
(*                    frames) sharing the chrome.storage.local flag        *)
(*   FinderSpec       POST /api/find-element over bounded requests         *)
(*   ExecutorSpec     interactWithElement from the moment a match's        *)
(*                    message is being spoken, over every kind of element  *)
(*                    and a set of commands                                *)
(*   LabelSpec        getElementText over bounded elements                 *)
(*   AnalyzeSpec      POST /api/analyze-page over bounded requests         *)
(*   VoiceSpec        VoiceManager.speak, stopAllSpeech and the            *)
(*                    background's chrome.tts calls, with the 100 ms delay *)
(*                    of speak and the synthesiser's queue                 *)
(*   FairVoiceSpec    VoiceSpec with weak fairness on the timers and on    *)
(*                    the synthesisers' events                             *)
(*                                                                         *)
(* In the specifications of the page an utterance is requested and started *)
(* in one step; VoiceSpec has the steps in between.  Not modelled:         *)
(* browsers without speech recognition.                                    *)
(***************************************************************************)
EXTENDS Integers, Sequences, FiniteSets, TLC

\* ------------------------------------------------------------------ bounds
MaxNodes == 2
MaxInitNodes == 1
MaxDomChanges == 1
MaxCycles == 2
MaxTabs == 2
MaxWrites == 2
MaxLen == 2
MaxList == 2
MaxTimers == 2
MaxElements == 25
MaxUtterances == 3
MaxTts == 2

\* --------------------------------------------------------------- strings
\* A string is a sequence of one-character strings.
UpperChars == <<"A", "B", "C", "I", "K", "L", "R", "S">>
LowerChars == <<"a", "b", "c", "i", "k", "l", "r", "s">>

LowerChar(ch) ==
  IF \E i \in 1..Len(UpperChars) : UpperChars[i] = ch
  THEN LowerChars[CHOOSE i \in 1..Len(UpperChars) : UpperChars[i] = ch]
  ELSE ch

\* String.prototype.toLowerCase
toLowerCase(s) == [i \in 1..Len(s) |-> LowerChar(s[i])]

\* String.prototype.includes: t occurs in s as a contiguous run
includes(s, t) ==
  \E i \in 0..(Len(s) - Len(t)) : SubSeq(s, i + 1, i + Len(t)) = t

\* String.prototype.startsWith
startsWith(s, t) == Len(t) <= Len(s) /\ SubSeq(s, 1, Len(t)) = t

\* String.prototype.substring(0, n)
substring(s, n) == IF Len(s) <= n THEN s ELSE SubSeq(s, 1, n)

RECURSIVE trimStart(_)
trimStart(s) == IF s # <<>> /\ Head(s) = " " THEN trimStart(Tail(s)) ELSE s

RECURSIVE trimEnd(_)
trimEnd(s) ==
  IF s # <<>> /\ s[Len(s)] = " " THEN trimEnd(SubSeq(s, 1, Len(s) - 1)) ELSE s

\* String.prototype.trim
trim(s) == trimEnd(trimStart(s))

\* `a || b` on strings: the empty string is falsy
OrElse(a, b) == IF a # <<>> THEN a ELSE b

\* All strings over alphabet of length at most n
RECURSIVE StrsOfLen(_, _)
StrsOfLen(alphabet, n) ==
  IF n = 0 THEN {<<>>}
  ELSE {Append(s, ch) : s \in StrsOfLen(alphabet, n - 1), ch \in alphabet}

Strs(alphabet, n) == UNION {StrsOfLen(alphabet, k) : k \in 0..n}

\* ------------------------------------------------------------------- DOM
\* The page's nodes that match the extractor's selector list, in document
\* order.  A node is [id, vis, idx]: its identity, whether isElementVisible
\* holds of it, and its data-accessibility-index attribute (NoIdx: none).
NoIdx == 0 - 1
NoEl == 0

\* What the page's markup fixes for a node: the kinds repeat over the ids.
NodeKinds ==
  << [tagName |-> "BUTTON", ariaLabel |-> <<>>, textContent |-> <<"a">>,
      placeholder |-> <<>>, href |-> <<>>],
     [tagName |-> "A", ariaLabel |-> <<>>, textContent |-> <<" ", "B">>,
      placeholder |-> <<>>, href |-> <<"h">>],
     [tagName |-> "INPUT", ariaLabel |-> <<>>, textContent |-> <<>>,
      placeholder |-> <<>>, href |-> <<>>],
     [tagName |-> "TEXTAREA", ariaLabel |-> <<>>, textContent |-> <<>>,
      placeholder |-> <<>>, href |-> <<>>],
     [tagName |-> "SELECT", ariaLabel |-> <<>>, textContent |-> <<"a">>,
      placeholder |-> <<>>, href |-> <<>>],
     [tagName |-> "A", ariaLabel |-> <<>>, textContent |-> <<"a">>,
      placeholder |-> <<>>,
      href |-> <<"j", "a", "v", "a", "s", "c", "r", "i", "p", "t", ":">>],
     [tagName |-> "A", ariaLabel |-> <<>>, textContent |-> <<"a">>,
      placeholder |-> <<>>, href |-> <<>>],
     [tagName |-> "DIV", ariaLabel |-> <<>>, textContent |-> <<"a">>,
      placeholder |-> <<>>, href |-> <<>>] >>

Markup(id) == NodeKinds[((id - 1) % Len(NodeKinds)) + 1]

TextCap == 100

\* getElementText(el), el given by its markup
getElementText(el) ==
  LET text == trim(el.textContent)
  IN  IF el.ariaLabel # <<>> THEN el.ariaLabel
      ELSE substring(IF el.tagName = "INPUT" /\ el.placeholder # <<>>
                     THEN el.placeholder ELSE text, TextCap)

\* isElementVisible(el)
isElementVisible(node) == node.vis

\* el.tagName.toLowerCase()
TagNames == <<"BUTTON", "A", "INPUT", "TEXTAREA", "SELECT", "DIV">>
LowerTagNames == <<"button", "a", "input", "textarea", "select", "div">>
tagNameToLowerCase(tagName) ==
  LowerTagNames[CHOOSE i \in 1..Len(TagNames) : TagNames[i] = tagName]

\* The record built for allElements[index] (content.js 230-240); el is the
\* DOM node it was built from, kept to compare with the node acted on.
elementData(node, index) ==
  [index |-> index,
   tag |-> tagNameToLowerCase(Markup(node.id).tagName),
   text |-> getElementText(Markup(node.id)),
   ariaLabel |-> Markup(node.id).ariaLabel,
   el |-> node.id]

RECURSIVE forEachElement(_, _, _)
forEachElement(allElements, i, elements) ==
  IF i > Len(allElements) THEN elements
  ELSE forEachElement(allElements, i + 1,
         IF isElementVisible(allElements[i])
         THEN Append(elements, elementData(allElements[i], i - 1))
         ELSE elements)

\* extractInteractiveElements(): the list it returns
extractInteractiveElements(allElements) ==
  forEachElement(allElements, 1, <<>>)

\* extractInteractiveElements(): the DOM it leaves, each visible node tagged
\* el.dataset.accessibilityIndex = index
TagElements(allElements) ==
  [i \in 1..Len(allElements) |->
     IF isElementVisible(allElements[i])
     THEN [allElements[i] EXCEPT !.idx = i - 1]
     ELSE allElements[i]]

\* A lookup that falls back to the document's first element
querySelectorOrFirst(d, k) ==
  IF \E i \in 1..Len(d) : d[i].idx = k
  THEN d[CHOOSE i \in 1..Len(d) :
           d[i].idx = k /\ \A j \in 1..(i - 1) : d[j].idx # k].id
  ELSE 1

\* document.querySelector('[data-accessibility-index="k"]'): the first node
\* in document order carrying the attribute, or none
querySelector(d, k) ==
  IF \E i \in 1..Len(d) : d[i].idx = k
  THEN d[CHOOSE i \in 1..Len(d) :
           d[i].idx = k /\ \A j \in 1..(i - 1) : d[j].idx # k].id
  ELSE NoEl

\* ------------------------------------------------------------ the backend
Digits == <<"0", "1", "2", "3", "4", "5", "6", "7", "8", "9">>

IsDigit(ch) == \E i \in 1..Len(Digits) : Digits[i] = ch

DigitVal(ch) == (CHOOSE i \in 1..Len(Digits) : Digits[i] = ch) - 1

RECURSIVE parseDigits(_, _)
parseDigits(s, acc) ==
  IF s # <<>> /\ IsDigit(Head(s))
  THEN parseDigits(Tail(s), 10 * acc + DigitVal(Head(s)))
  ELSE acc

\* parseInt(s) on decimal input: leading white space, an optional sign, then
\* the longest run of digits; NaN when there is no digit
parseInt(s) ==
  LET t == trimStart(s)
      neg == t # <<>> /\ Head(t) = "-"
      u == IF t # <<>> /\ Head(t) \in {"-", "+"} THEN Tail(t) ELSE t
  IN  IF u = <<>> \/ ~IsDigit(Head(u))
      THEN [nan |-> TRUE, n |-> 0]
      ELSE [nan |-> FALSE,
            n |-> IF neg THEN 0 - parseDigits(u, 0) ELSE parseDigits(u, 0)]

\* A result's element is a list of zero or one record (absent or present).
NoMatch(message) ==
  [found |-> FALSE, element |-> <<>>, elementIndex |-> NoIdx,
   message |-> message]

\* A findElement that takes a too large number for the last element
GroqFindElementClamped(elements, content) ==
  LET elementIndex == parseInt(trim(content))
      last == Len(elements) - 1
  IN  IF elementIndex.nan \/ elementIndex.n < 0
      THEN NoMatch("No matching element found")
      ELSE LET k == IF elementIndex.n > last THEN last ELSE elementIndex.n
           IN  [found |-> TRUE, element |-> <<elements[k + 1]>>,
                elementIndex |-> k, message |-> ""]

\* GroqService.findElement, from the model's reply `content` on
GroqFindElement(elements, content) ==
  LET elementIndex == parseInt(trim(content))
  IN  IF elementIndex.nan \/ elementIndex.n = 0 - 1 \/ elementIndex.n < 0
         \/ elementIndex.n >= Len(elements)
      THEN NoMatch("No matching element found")
      ELSE [found |-> TRUE, element |-> <<elements[elementIndex.n + 1]>>,
            elementIndex |-> elementIndex.n, message |-> ""]

\* The label the fallback compares: (el.text || el.ariaLabel || '').toLowerCase()
FallbackText(el) == toLowerCase(OrElse(OrElse(el.text, el.ariaLabel), <<>>))

\* A fallback that tests only whether the label contains the command
LabelContainsCommand(el, commandLower) ==
  includes(FallbackText(el), commandLower)

\* The fallback's test of one candidate
FallbackMatches(el, commandLower) ==
  \/ includes(FallbackText(el), commandLower)
  \/ includes(commandLower, FallbackText(el))

\* for (let i = 0; i < elements.length; i++) { ... break; }: the loop from
\* position i (0-based) on, returning foundIndex
RECURSIVE FallbackLoop(_, _, _)
FallbackLoop(elements, commandLower, i) ==
  IF i >= Len(elements) THEN 0 - 1
  ELSE IF FallbackMatches(elements[i + 1], commandLower) THEN i
  ELSE FallbackLoop(elements, commandLower, i + 1)

\* The catch block of the route: simple text matching
FallbackFindElement(command, elements) ==
  LET foundIndex == FallbackLoop(elements, toLowerCase(command), 0)
  IN  IF foundIndex >= 0
      THEN [found |-> TRUE, element |-> <<elements[foundIndex + 1]>>,
            elementIndex |-> foundIndex, message |-> ""]
      ELSE NoMatch("Could not find a matching element for your command")

\* A route without the catch block of the model call: its failure reaches
\* the outer catch
RouteFindElementNoFallback(command, elements, model) ==
  IF command = <<>>
  THEN [status |-> 400, success |-> FALSE, body |-> NoMatch("")]
  ELSE IF Len(elements) = 0
  THEN [status |-> 200, success |-> TRUE,
        body |-> NoMatch("No interactive elements found on page")]
  ELSE IF model.throws
  THEN [status |-> 500, success |-> FALSE, body |-> NoMatch("")]
  ELSE LET result == GroqFindElement(elements, model.content)
       IN  IF ~result.found
           THEN [status |-> 200, success |-> TRUE,
                 body |-> NoMatch(result.message)]
           ELSE [status |-> 200, success |-> TRUE,
                 body |-> [result EXCEPT !.message = "Found"]]

\* POST /api/find-element.  `model` is what the model call does:
\* [throws |-> TRUE], or [throws |-> FALSE, content |-> the reply's text].
RouteFindElement(command, elements, model) ==
  IF command = <<>>
  THEN [status |-> 400, success |-> FALSE, body |-> NoMatch("")]
  ELSE IF Len(elements) = 0
  THEN [status |-> 200, success |-> TRUE,
        body |-> NoMatch("No interactive elements found on page")]
  ELSE LET result == IF model.throws
                     THEN FallbackFindElement(command, elements)
                     ELSE GroqFindElement(elements, model.content)
       IN  IF ~result.found
           THEN [status |-> 200, success |-> TRUE,
                 body |-> NoMatch(IF result.message # "" THEN result.message
                                  ELSE "Could not find a matching element for your command")]
           ELSE [status |-> 200, success |-> TRUE,
                 body |-> [result EXCEPT !.message = "Found"]]

\* APIClient.findElement.  `net` is what the transport does: "ok",
\* "transport" (fetch rejects) or "malformed" (response.json() rejects).
\* A thrown error is [threw |-> TRUE]; the caller's catch receives it.
APIClientFindElement(command, elements, net, model) ==
  LET data == RouteFindElement(command, elements, model)
  IN  IF net # "ok" \/ ~data.success
      THEN [threw |-> TRUE, value |-> NoMatch("")]
      ELSE [threw |-> FALSE, value |-> data.body]

\* --------------------------------------------- POST /api/analyze-page
PreviewLen == 200
PreviewMin == 20
DescriptionLen == 150
LabelLimit == 50
NavCap == 20

\* A filter that keeps labels of white space
NonEmptyText(text) ==
  /\ text # <<>>
  /\ Len(text) < LabelLimit

\* The filter of the fallback: el.text, non-empty, shorter than 50, not
\* only white space
ValidText(text) ==
  /\ text # <<>>
  /\ Len(text) > 0
  /\ Len(text) < LabelLimit
  /\ ~(\A i \in 1..Len(text) : text[i] = " ")

ValidElement(el) == ValidText(el.text)

\* elements.filter(...)
validElements(elements) == SelectSeq(elements, ValidElement)

\* validElements.slice(0, 20)
displayElements(valid) == SubSeq(valid, 1, IF Len(valid) < NavCap THEN Len(valid) ELSE NavCap)

\* The fallback summary, by its variable parts: the title, the description
\* (<<>> or <<text>>), the labels listed and the count announced as "more"
FallbackSummary(pageContent, pageTitle, elements) ==
  LET contentPreview == trim(substring(pageContent, PreviewLen))
      description == IF Len(contentPreview) > PreviewMin
                     THEN <<substring(contentPreview, DescriptionLen)>>
                     ELSE <<>>
      valid == validElements(elements)
      display == displayElements(valid)
  IN  [title |-> pageTitle,
       description |-> description,
       labels |-> [i \in 1..Len(display) |-> display[i].text],
       more |-> IF Len(display) > 0 /\ Len(valid) > NavCap
                THEN Len(valid) - NavCap ELSE 0,
       usedFallback |-> TRUE]

\* The summary the model wrote
ModelSummary ==
  [title |-> <<>>, description |-> <<>>, labels |-> <<>>, more |-> 0,
   usedFallback |-> FALSE]

\* POST /api/analyze-page.  `throws`: the model call fails.
RouteAnalyzePage(pageContent, pageTitle, elements, throws) ==
  IF pageContent = <<>> \/ pageTitle = <<>>
  THEN [status |-> 400, success |-> FALSE, summary |-> <<>>]
  ELSE [status |-> 200, success |-> TRUE,
        summary |-> <<IF throws
                      THEN FallbackSummary(pageContent, pageTitle, elements)
                      ELSE ModelSummary>>]

\* ------------------------------------------------------------------ state
VARIABLES
  \* the page
  dom,              \* the selector-matching nodes, in document order
  created,          \* nodes created so far in this page (the next id - 1)
  domChanges,       \* DOM mutations so far in this page
  \* chrome.storage
  flag,             \* chrome.storage.local autoSpeak
  stored,           \* chrome.storage.sync: [enabled, autoSummary]
  \* content.js globals and control state
  initPc,           \* where init() stands
  settings,         \* settings.enabled, settings.autoSummary
  fsPc,             \* where the background fetchSummary() stands
  pendingSummary,   \* pendingSummary is non-null
  autoSpeakOnLoad,
  currentElements,
  cyc,              \* the voice-command cycles: startVoiceCommand and the
                    \* processVoiceCommand its capture leads to
  utterance,        \* the page synthesiser's utterance: [text, by], by the
                    \* cycle awaiting its end (0: nobody)
  bgSpeaking,       \* the background chrome.tts is speaking the summary
  marked,           \* the elements whose classList has accessibility-highlight
  highlightedElement,
  timers,           \* the pending 3 s timers of highlightElement, oldest
                    \* first: the element each was armed for
  scrolled,         \* the element whose scrollIntoView() the step just
                    \* taken called (NoEl: none)
  acted,            \* the element.click() / element.focus() of the step
                    \* just taken: [el, method] (NoAct: none)
  \* history, read by the properties only
  flagAtLoad,       \* flag's value when this page's script started
  announced,        \* fetchSummary sent the summary + prompt to be spoken
  lastPass,         \* the list the latest extraction pass returned
  \* several initialisations sharing the flag (TabsSpec)
  tabs, writes, reads,
  viaClick,         \* per tab: the document in the tab was reached through
                    \* a voice-commanded link click
  \* POST /api/find-element alone (FinderSpec)
  req, resp,
  \* getElementText alone (LabelSpec)
  labelEl,          \* the element it is called with
  labelText,        \* what it returned: <<text>> (<<>>: not called yet)
  \* POST /api/analyze-page alone (AnalyzeSpec)
  areq, aresp,
  \* VoiceManager.speak and stopAllSpeech alone (VoiceSpec)
  utterances,       \* the calls of speak(), oldest first: [state, resolved,
                    \* old]: where the utterance stands, whether the
                    \* promise is resolved, whether an Escape came since
  ttsCalls          \* the 'speak' messages to the background: [state, old]

pageVars == <<dom, created, domChanges, initPc, settings, fsPc,
              pendingSummary, autoSpeakOnLoad, currentElements, cyc,
              utterance, bgSpeaking, marked, highlightedElement, timers,
              scrolled, acted, flagAtLoad, announced, lastPass>>
markVars == <<marked, highlightedElement, timers>>
tabVars == <<tabs, writes, reads, viaClick>>
finderVars == <<req, resp>>
labelVars == <<labelEl, labelText>>
analyzeVars == <<areq, aresp>>
voiceVars == <<utterances, ttsCalls>>
unitVars == <<labelVars, analyzeVars, voiceVars>>
vars == <<pageVars, flag, stored, tabVars, finderVars, unitVars>>

Cycles == 1..MaxCycles

\* Commands the recogniser may transcribe
Commands == { <<"a">>, <<"c", "l", "i", "c", "k", " ", "b">> }

\* What the ranking model may answer for a list of n candidates
ModelOutcomes(n) ==
  {[throws |-> TRUE, content |-> <<>>]}
  \cup {[throws |-> FALSE, content |-> <<Digits[k + 1]>>] : k \in 0..n}
  \cup {[throws |-> FALSE, content |-> c] : c \in {<<"-", "1">>, <<"n", "o">>}}

NetOutcomes == {"ok", "transport", "malformed"}

Silence == [text |-> "", by |-> 0]

\* No element.click() or element.focus() in this step
NoAct == [el |-> NoEl, method |-> "none"]

IdleCycle ==
  [pc |-> "idle", command |-> <<>>, elements |-> <<>>, result |-> <<>>,
   element |-> NoEl]

\* The DOMs a page may start with: up to n nodes, none tagged yet; each
\* is given by its nodes' visibility
InitialDoms(n) ==
  UNION {[1..k -> BOOLEAN] : k \in 0..n}

FreshDom(visible) ==
  [i \in DOMAIN visible |-> [id |-> i, vis |-> visible[i], idx |-> NoIdx]]

TabsIdle ==
  /\ tabs = [t \in 1..MaxTabs |-> "closed"]
  /\ writes = 0
  /\ reads = 0
  /\ viaClick = [t \in 1..MaxTabs |-> FALSE]

FinderIdle ==
  /\ req = [command |-> <<>>, elements |-> <<>>,
            model |-> [throws |-> TRUE, content |-> <<>>]]
  /\ resp = <<>>

LabelIdle ==
  /\ labelEl = NodeKinds[1]
  /\ labelText = <<>>

AnalyzeIdle ==
  /\ areq = [pageContent |-> <<>>, pageTitle |-> <<>>, elements |-> <<>>,
             throws |-> FALSE]
  /\ aresp = <<>>

VoiceIdle ==
  /\ utterances = <<>>
  /\ ttsCalls = <<>>

UnitsIdle ==
  /\ LabelIdle
  /\ AnalyzeIdle
  /\ VoiceIdle

\* The installed defaults of chrome.storage.sync (background.js, onInstalled;
\* autoSummary unset reads as the script's default, true)
DefaultSettings == [enabled |-> TRUE, autoSummary |-> TRUE]

\* A content script starts in a freshly loaded document
PageStart(visible) ==
  /\ dom = FreshDom(visible)
  /\ created = Len(visible)
  /\ domChanges = 0
  /\ initPc = "start"
  /\ settings = DefaultSettings
  /\ fsPc = "idle"
  /\ pendingSummary = FALSE
  /\ autoSpeakOnLoad = FALSE
  /\ currentElements = <<>>
  /\ cyc = [c \in Cycles |-> IdleCycle]
  /\ utterance = Silence
  /\ bgSpeaking = FALSE
  /\ marked = {}
  /\ highlightedElement = NoEl
  /\ timers = <<>>
  /\ acted = NoAct
  /\ scrolled = NoEl
  /\ flagAtLoad = flag
  /\ announced = FALSE
  /\ lastPass = <<>>

\* Spec: any starting DOM of up to MaxInitNodes nodes; the flag unset, as
\* installed; the installed settings
Init ==
  /\ flag = FALSE
  /\ stored = DefaultSettings
  /\ \E visible \in InitialDoms(MaxInitNodes) : PageStart(visible)
  /\ TabsIdle
  /\ UnitsIdle
  /\ FinderIdle

\* ------------------------------------------------------- DOM mutations
\* The page (its own scripts) inserts a node at position pos
DomInsert(pos, visible) ==
  /\ created < MaxNodes
  /\ domChanges < MaxDomChanges
  /\ pos \in 1..(Len(dom) + 1)
  /\ dom' = SubSeq(dom, 1, pos - 1)
            \o <<[id |-> created + 1, vis |-> visible, idx |-> NoIdx]>>
            \o SubSeq(dom, pos, Len(dom))
  /\ created' = created + 1
  /\ domChanges' = domChanges + 1
  /\ UNCHANGED <<flag, stored, initPc, settings, fsPc, pendingSummary,
                 autoSpeakOnLoad, currentElements, cyc, utterance,
                 bgSpeaking, flagAtLoad, announced, lastPass, tabVars, finderVars, unitVars, markVars>>
  /\ acted' = NoAct
  /\ scrolled' = NoEl

\* The page removes the node at position pos
DomRemove(pos) ==
  /\ domChanges < MaxDomChanges
  /\ pos \in 1..Len(dom)
  /\ dom' = SubSeq(dom, 1, pos - 1) \o SubSeq(dom, pos + 1, Len(dom))
  /\ domChanges' = domChanges + 1
  /\ UNCHANGED <<created, flag, stored, initPc, settings, fsPc,
                 pendingSummary, autoSpeakOnLoad, currentElements, cyc,
                 utterance, bgSpeaking, flagAtLoad, announced,
                 lastPass, tabVars, finderVars, unitVars, markVars>>
  /\ acted' = NoAct
  /\ scrolled' = NoEl

\* The page hides or shows the node at position pos
DomToggle(pos) ==
  /\ domChanges < MaxDomChanges
  /\ pos \in 1..Len(dom)
  /\ dom' = [dom EXCEPT ![pos].vis = ~@]
  /\ domChanges' = domChanges + 1
  /\ UNCHANGED <<created, flag, stored, initPc, settings, fsPc,
                 pendingSummary, autoSpeakOnLoad, currentElements, cyc,
                 utterance, bgSpeaking, flagAtLoad, announced,
                 lastPass, tabVars, finderVars, unitVars, markVars>>
  /\ acted' = NoAct
  /\ scrolled' = NoEl

\* ------------------------------------------------------------ init()
\* onPageReady(): arm the 1 s timer of the background fetch, if enabled
onPageReady(autoSummary) == IF autoSummary THEN "timer" ELSE "off"

\* What an awaited call of init() may do: settle, or throw.  loadUtilities
\* throws when a utility is missing (lines 73-76); a chrome.storage call
\* rejects when the extension's context is gone.  init() has no catch: its
\* promise is then rejected with nobody handling it ("rejected").
InitFaults == {"none", "utilities", "storage"}

\* init(), lines 26-35: loadUtilities, loadSettings, the enabled check
InitLoadSettings ==
  /\ initPc = "start"
  /\ \E fault \in InitFaults :
       IF fault = "none"
       THEN /\ settings' = stored
            /\ initPc' = IF stored.enabled THEN "getFlag" ELSE "disabled"
       ELSE /\ settings' = settings
            /\ initPc' = "rejected"
  /\ UNCHANGED <<dom, created, domChanges, flag, stored, fsPc,
                pendingSummary, autoSpeakOnLoad, currentElements, cyc,
                utterance, bgSpeaking, flagAtLoad, announced,
                lastPass, tabVars, finderVars, unitVars, markVars>>
  /\ acted' = NoAct
  /\ scrolled' = NoEl

\* init(), line 38 and, the flag unset, lines 44-60
InitGetFlag ==
  /\ initPc = "getFlag"
  /\ \E fault \in {"none", "storage"} :
       IF fault # "none"
       THEN /\ initPc' = "rejected"
            /\ UNCHANGED fsPc
       ELSE IF flag
       THEN /\ initPc' = "removeFlag"
            /\ UNCHANGED fsPc
       ELSE /\ initPc' = "done"
            /\ fsPc' = onPageReady(settings.autoSummary)
  /\ UNCHANGED <<dom, created, domChanges, flag, stored, settings,
                pendingSummary, autoSpeakOnLoad, currentElements, cyc,
                utterance, bgSpeaking, flagAtLoad, announced,
                lastPass, tabVars, finderVars, unitVars, markVars>>
  /\ acted' = NoAct
  /\ scrolled' = NoEl

\* init(), lines 40-60, the flag read as set
InitRemoveFlag ==
  /\ initPc = "removeFlag"
  /\ \E fault \in {"none", "storage"} :
       IF fault # "none"
       THEN /\ initPc' = "rejected"
            /\ UNCHANGED <<flag, autoSpeakOnLoad, fsPc>>
       ELSE /\ flag' = FALSE
            /\ autoSpeakOnLoad' = TRUE
            /\ initPc' = "done"
            /\ fsPc' = onPageReady(settings.autoSummary)
  /\ UNCHANGED <<dom, created, domChanges, stored, settings, pendingSummary,
                currentElements, cyc, utterance, bgSpeaking,
                flagAtLoad, announced, lastPass, tabVars,
                finderVars, unitVars, markVars>>
  /\ acted' = NoAct
  /\ scrolled' = NoEl

\* ------------------------------------------------------ fetchSummary()
\* The timer of onPageReady fires: fetchSummary() up to its await
FetchSummaryStart ==
  /\ fsPc = "timer"
  /\ lastPass' = extractInteractiveElements(dom)
  /\ dom' = TagElements(dom)
  /\ fsPc' = "await"
  /\ UNCHANGED <<created, domChanges, flag, stored, initPc, settings,
                pendingSummary, autoSpeakOnLoad, currentElements, cyc,
                utterance, bgSpeaking, flagAtLoad, announced, tabVars, finderVars, unitVars, markVars>>
  /\ acted' = NoAct
  /\ scrolled' = NoEl

\* APIClient.analyzePage: "ok", or the error it throws
AnalyzeOutcomes == {"ok", "transport", "malformed", "error"}

\* A fetchSummary that has the summary spoken whenever it arrives
FetchSummaryReplyAloud(out) ==
  /\ fsPc = "await"
  /\ fsPc' = "done"
  /\ IF out = "ok"
     THEN /\ autoSpeakOnLoad' = FALSE
          /\ bgSpeaking' = TRUE
          /\ announced' = TRUE
          /\ pendingSummary' = FALSE
     ELSE UNCHANGED <<autoSpeakOnLoad, bgSpeaking, announced, pendingSummary>>
  /\ UNCHANGED <<dom, created, domChanges, flag, stored, initPc, settings,
                currentElements, cyc, utterance, flagAtLoad,
                lastPass, tabVars, finderVars, unitVars, markVars>>
  /\ acted' = NoAct
  /\ scrolled' = NoEl

\* The background's chrome.tts finishes speaking (background.js, line 41)
BgSpeechEnds ==
  /\ bgSpeaking
  /\ bgSpeaking' = FALSE
  /\ UNCHANGED <<dom, created, domChanges, flag, stored, initPc, settings,
                fsPc, pendingSummary, autoSpeakOnLoad, currentElements, cyc,
                utterance, flagAtLoad, announced, lastPass, tabVars,
                finderVars, unitVars, markVars>>
  /\ acted' = NoAct
  /\ scrolled' = NoEl

\* apiClient.analyzePage settles: the rest of fetchSummary()
FetchSummaryReply(out) ==
  /\ fsPc = "await"
  /\ fsPc' = "done"
  /\ IF out = "ok"
     THEN IF autoSpeakOnLoad
          THEN /\ autoSpeakOnLoad' = FALSE
               /\ bgSpeaking' = TRUE
               /\ announced' = TRUE
               /\ pendingSummary' = FALSE
          ELSE /\ pendingSummary' = TRUE
               /\ UNCHANGED <<autoSpeakOnLoad, bgSpeaking, announced>>
     ELSE UNCHANGED <<autoSpeakOnLoad, bgSpeaking, announced, pendingSummary>>
  /\ UNCHANGED <<dom, created, domChanges, flag, stored, initPc, settings,
                currentElements, cyc, utterance, flagAtLoad,
                lastPass, tabVars, finderVars, unitVars, markVars>>
  /\ acted' = NoAct
  /\ scrolled' = NoEl

\* ------------------------------------------------- startVoiceCommand()
\* synthesis.cancel(), first in speak() and in stopSpeaking(): the utterance
\* in progress ends with 'interrupted', which speak() leaves unsettled, so
\* the invocation awaiting it never resumes and its record is released
Cancel(cs) ==
  [k \in Cycles |-> IF utterance.by = k THEN IdleCycle ELSE cs[k]]

\* A startVoiceCommand that goes to the listening prompt at once
startVoiceCommandPromptOnly(c) ==
  /\ cyc' = [Cancel(cyc) EXCEPT ![c].pc = "speakListening"]
  /\ utterance' = [text |-> "Listening for your command...", by |-> c]

\* startVoiceCommand() up to its first await, for cycle c
startVoiceCommand(c) ==
  IF pendingSummary
  THEN /\ cyc' = [Cancel(cyc) EXCEPT ![c].pc = "speakSummary"]
       /\ utterance' = [text |-> "summary", by |-> c]
  ELSE /\ cyc' = [Cancel(cyc) EXCEPT ![c].pc = "speakListening"]
       /\ utterance' = [text |-> "Listening for your command...", by |-> c]

\* A new invocation takes the first cycle record not in use
FreeCycle(c) ==
  /\ cyc[c].pc = "idle"
  /\ \A k \in 1..(c - 1) : cyc[k].pc # "idle"

\* keydown Alt+A: stopAllSpeech(), startVoiceCommand()
KeydownAltA(c) ==
  /\ initPc = "done"
  /\ FreeCycle(c)
  /\ bgSpeaking' = FALSE
  /\ startVoiceCommand(c)
  /\ UNCHANGED <<dom, created, domChanges, flag, stored, initPc, settings,
                fsPc, pendingSummary, autoSpeakOnLoad, currentElements, flagAtLoad, announced, lastPass, tabVars, finderVars, unitVars, markVars>>
  /\ acted' = NoAct
  /\ scrolled' = NoEl

\* keydown Escape: stopAllSpeech()
KeydownEscape ==
  /\ initPc = "done"
  /\ utterance # Silence \/ bgSpeaking
  /\ cyc' = Cancel(cyc)
  /\ utterance' = Silence
  /\ bgSpeaking' = FALSE
  /\ UNCHANGED <<dom, created, domChanges, flag, stored, initPc, settings,
                fsPc, pendingSummary, autoSpeakOnLoad, currentElements,
                flagAtLoad, announced, lastPass, tabVars, finderVars, unitVars, markVars>>
  /\ acted' = NoAct
  /\ scrolled' = NoEl

\* onMessage summarizePage / startVoiceCommand: startVoiceCommand()
OnMessageStart(c) ==
  /\ FreeCycle(c)
  /\ startVoiceCommand(c)
  /\ UNCHANGED <<dom, created, domChanges, flag, stored, initPc, settings,
                fsPc, pendingSummary, autoSpeakOnLoad, currentElements,
                bgSpeaking, flagAtLoad, announced, lastPass, tabVars, finderVars, unitVars, markVars>>
  /\ acted' = NoAct
  /\ scrolled' = NoEl

\* await voiceManager.speak(pendingSummary) resolves (lines 299-303)
SummarySpoken(c) ==
  /\ cyc[c].pc = "speakSummary"
  /\ utterance.by = c
  /\ pendingSummary' = FALSE
  /\ cyc' = [cyc EXCEPT ![c].pc = "speakListening"]
  /\ utterance' = [text |-> "Listening for your command...", by |-> c]
  /\ UNCHANGED <<dom, created, domChanges, flag, stored, initPc, settings,
                fsPc, autoSpeakOnLoad, currentElements, bgSpeaking, flagAtLoad, announced, lastPass, tabVars, finderVars, unitVars, markVars>>
  /\ acted' = NoAct
  /\ scrolled' = NoEl

\* await voiceManager.speak('Listening...') resolves (lines 305-323):
\* extract; stop when empty; else resetRecognition and startListening
ListeningSpoken(c) ==
  /\ cyc[c].pc = "speakListening"
  /\ utterance.by = c
  /\ LET elements == extractInteractiveElements(dom)
     IN  /\ currentElements' = elements
         /\ lastPass' = elements
         /\ dom' = TagElements(dom)
         /\ IF Len(elements) = 0
            THEN /\ cyc' = [cyc EXCEPT ![c].pc = "speakNoElements"]
                 /\ utterance' =
                      [text |-> "No interactive elements found on this page.",
                       by |-> c]
            ELSE /\ cyc' = [k \in Cycles |->
                              IF k = c THEN [cyc[c] EXCEPT !.pc = "listening"]
                              ELSE IF cyc[k].pc = "listening" THEN IdleCycle
                              ELSE cyc[k]]
                 /\ utterance' = Silence
  /\ UNCHANGED <<created, domChanges, flag, stored, initPc, settings, fsPc,
                pendingSummary, autoSpeakOnLoad, bgSpeaking,
                flagAtLoad, announced, tabVars,
                finderVars, unitVars, markVars>>
  /\ acted' = NoAct
  /\ scrolled' = NoEl

\* await voiceManager.speak('No interactive elements...') resolves: return
NoElementsSpoken(c) ==
  /\ cyc[c].pc = "speakNoElements"
  /\ utterance.by = c
  /\ cyc' = [cyc EXCEPT ![c] = IdleCycle]
  /\ utterance' = Silence
  /\ UNCHANGED <<dom, created, domChanges, flag, stored, initPc, settings,
                fsPc, pendingSummary, autoSpeakOnLoad, currentElements,
                bgSpeaking, flagAtLoad, announced, lastPass, tabVars, finderVars, unitVars, markVars>>
  /\ acted' = NoAct
  /\ scrolled' = NoEl

\* recognition.onerror: capture ends without a command
CaptureErrors == {"no-speech", "not-allowed", "aborted"}

\* An onerror that speaks its message and starts capture again
CaptureErrorRetry(c, error) ==
  /\ cyc[c].pc = "listening"
  /\ cyc' = IF error = "aborted" THEN [cyc EXCEPT ![c] = IdleCycle]
            ELSE Cancel(cyc)
  /\ utterance' =
       IF error = "no-speech"
       THEN [text |-> "No voice command detected. Please try again.", by |-> 0]
       ELSE IF error = "not-allowed"
       THEN [text |-> "Microphone access denied.", by |-> 0]
       ELSE utterance
  /\ UNCHANGED <<dom, created, domChanges, flag, stored, initPc, settings,
                fsPc, pendingSummary, autoSpeakOnLoad, currentElements,
                bgSpeaking, flagAtLoad, announced, lastPass, tabVars, finderVars, unitVars, markVars>>
  /\ acted' = NoAct
  /\ scrolled' = NoEl

CaptureError(c, error) ==
  /\ cyc[c].pc = "listening"
  /\ cyc' = IF error = "aborted" THEN [cyc EXCEPT ![c] = IdleCycle]
            ELSE [Cancel(cyc) EXCEPT ![c] = IdleCycle]
  /\ utterance' =
       IF error = "no-speech"
       THEN [text |-> "No voice command detected. Please try again.", by |-> 0]
       ELSE IF error = "not-allowed"
       THEN [text |-> "Microphone access denied.", by |-> 0]
       ELSE utterance
  /\ UNCHANGED <<dom, created, domChanges, flag, stored, initPc, settings,
                fsPc, pendingSummary, autoSpeakOnLoad, currentElements,
                bgSpeaking, flagAtLoad, announced, lastPass, tabVars, finderVars, unitVars, markVars>>
  /\ acted' = NoAct
  /\ scrolled' = NoEl

\* ----------------------------------------------- processVoiceCommand()
\* recognition.onresult: processVoiceCommand(command) up to its await of
\* apiClient.findElement(command, currentElements)
Recognised(c, command) ==
  /\ cyc[c].pc = "listening"
  /\ cyc' = [Cancel(cyc) EXCEPT ![c] = [@ EXCEPT !.pc = "awaitFind",
                                         !.command = command,
                                         !.elements = currentElements]]
  /\ utterance' = [text |-> "Searching for element...", by |-> 0]
  /\ UNCHANGED <<dom, created, domChanges, flag, stored, initPc, settings,
                fsPc, pendingSummary, autoSpeakOnLoad, currentElements,
                bgSpeaking, flagAtLoad, announced, lastPass, tabVars, finderVars, unitVars, markVars>>
  /\ acted' = NoAct
  /\ scrolled' = NoEl

\* apiClient.findElement settles (lines 342-354 and the catch, 373-377)
FindElementSettles(c, net, model) ==
  /\ cyc[c].pc = "awaitFind"
  /\ LET r == APIClientFindElement(cyc[c].command, cyc[c].elements, net, model)
     IN  IF r.threw
         THEN /\ cyc' = [Cancel(cyc) EXCEPT ![c] = IdleCycle]
              /\ utterance' =
                   [text |-> "Error processing your command", by |-> 0]
         ELSE IF ~r.value.found
         THEN /\ cyc' = [Cancel(cyc) EXCEPT ![c] = IdleCycle]
              /\ utterance' = [text |-> r.value.message, by |-> 0]
         ELSE /\ cyc' = [Cancel(cyc) EXCEPT ![c] = [@ EXCEPT !.pc = "speakFound",
                                                    !.result = r.value.element]]
              /\ utterance' = [text |-> r.value.message, by |-> c]
  /\ UNCHANGED <<dom, created, domChanges, flag, stored, initPc, settings,
                fsPc, pendingSummary, autoSpeakOnLoad, currentElements,
                bgSpeaking, flagAtLoad, announced, lastPass, tabVars, finderVars, unitVars, markVars>>
  /\ acted' = NoAct
  /\ scrolled' = NoEl

\* A highlightElement that leaves the previous marker in place
highlightElementKeepingOld(element) ==
  /\ marked' = marked \cup {element}
  /\ highlightedElement' = element
  /\ timers' = Append(timers, element)

\* highlightElement(element): the previous marker removed, the marker added,
\* highlightedElement set, the 3 s timer armed
highlightElement(element) ==
  /\ marked' = (IF highlightedElement # NoEl
                THEN marked \ {highlightedElement}
                ELSE marked) \cup {element}
  /\ highlightedElement' = element
  /\ timers' = Append(timers, element)

\* The oldest 3 s timer of highlightElement fires (timers of one delay fire
\* in the order they were armed)
HighlightExpires ==
  /\ timers # <<>>
  /\ LET element == Head(timers)
     IN  /\ marked' = marked \ {element}
         /\ highlightedElement' =
              IF highlightedElement = element THEN NoEl ELSE highlightedElement
  /\ timers' = Tail(timers)
  /\ UNCHANGED <<dom, created, domChanges, flag, stored, initPc, settings,
                fsPc, pendingSummary, autoSpeakOnLoad, currentElements, cyc,
                utterance, bgSpeaking, flagAtLoad, announced, lastPass,
                tabVars, finderVars, unitVars>>
  /\ acted' = NoAct
  /\ scrolled' = NoEl

\* await voiceManager.speak(result.message) resolves (lines 357-371), and
\* interactWithElement up to its 500 ms wait (lines 385-391)
FoundSpoken(c) ==
  /\ cyc[c].pc = "speakFound"
  /\ utterance.by = c
  /\ LET candidate == cyc[c].result[1]
         domElement == querySelector(dom, candidate.index)
     IN  IF domElement # NoEl
         THEN /\ Len(timers) < MaxTimers
              /\ highlightElement(domElement)
              /\ scrolled' = domElement
              /\ cyc' = [cyc EXCEPT ![c] = [@ EXCEPT !.pc = "settle",
                                                    !.elements = <<>>,
                                                    !.element = domElement]]
              /\ utterance' = Silence
         ELSE /\ cyc' = [cyc EXCEPT ![c] = IdleCycle]
              /\ utterance' =
                   [text |-> "Element found but could not interact with it.",
                    by |-> 0]
              /\ scrolled' = NoEl
              /\ UNCHANGED markVars
  /\ UNCHANGED <<dom, created, domChanges, flag, stored, initPc, settings,
                fsPc, pendingSummary, autoSpeakOnLoad, currentElements,
                bgSpeaking, flagAtLoad, announced, lastPass, tabVars,
                finderVars, unitVars>>
  /\ acted' = NoAct

\* ------------------------------------------------ interactWithElement()
\* A choice that looks at the element only
ChooseActionByTag(command, tagName) ==
  IF tagName = "BUTTON" \/ tagName = "A" THEN "click"
  ELSE IF tagName = "INPUT" \/ tagName = "TEXTAREA" THEN "focus"
  ELSE "activate"

\* The action lines 394-409 choose for a command and an element
ChooseAction(command, tagName) ==
  IF \/ includes(toLowerCase(command), <<"c", "l", "i", "c", "k">>)
     \/ tagName = "BUTTON"
     \/ tagName = "A"
  THEN "click"
  ELSE IF tagName = "INPUT" \/ tagName = "TEXTAREA" THEN "focus"
  ELSE "activate"

\* A test that takes every link with a destination to navigate away
AnyDestination(el) ==
  /\ Markup(el).tagName = "A"
  /\ Markup(el).href # <<>>

\* Line 398: a link that navigates away
NavigatesAway(el) ==
  /\ Markup(el).tagName = "A"
  /\ Markup(el).href # <<>>
  /\ ~startsWith(Markup(el).href, <<"j", "a", "v", "a", "s", "c", "r", "i", "p", "t">>)

\* The 500 ms wait is over; a link that navigates away: the flag is
\* written and awaited (line 399)
SettledSetFlag(c) ==
  /\ cyc[c].pc = "settle"
  /\ ChooseAction(cyc[c].command, Markup(cyc[c].element).tagName) = "click"
  /\ NavigatesAway(cyc[c].element)
  /\ flag' = TRUE
  /\ cyc' = [cyc EXCEPT ![c].pc = "flagSet"]
  /\ UNCHANGED <<dom, created, domChanges, stored, initPc, settings, fsPc,
                pendingSummary, autoSpeakOnLoad, currentElements,
                utterance, bgSpeaking, flagAtLoad, announced,
                lastPass, tabVars, finderVars, unitVars, markVars>>
  /\ acted' = NoAct
  /\ scrolled' = NoEl

\* The DOM method each branch of lines 394-409 invokes
DomMethod(action) == IF action = "focus" THEN "focus" ELSE "click"

\* An action that leaves the invocation where it was
ActAndStay(c, action) ==
  /\ acted' = [el |-> cyc[c].element, method |-> DomMethod(action)]
  /\ scrolled' = NoEl
  /\ utterance' = [text |-> "Clicked.", by |-> 0]
  /\ cyc' = Cancel(cyc)

\* element.click() or element.focus(), and the spoken outcome
Act(c, action) ==
  /\ acted' = [el |-> cyc[c].element, method |-> DomMethod(action)]
  /\ scrolled' = NoEl
  /\ utterance' =
       [text |-> IF action = "click" THEN "Clicked."
                 ELSE IF action = "focus"
                 THEN "Focused on input field. You can now type."
                 ELSE "Activated.",
        by |-> 0]
  /\ cyc' = [Cancel(cyc) EXCEPT ![c] = IdleCycle]

\* chrome.storage.local.set resolves: element.click() on the link
FlagSetClick(c) ==
  /\ cyc[c].pc = "flagSet"
  /\ Act(c, "click")
  /\ UNCHANGED <<dom, created, domChanges, flag, stored, initPc, settings,
                fsPc, pendingSummary, autoSpeakOnLoad, currentElements,
                bgSpeaking, flagAtLoad, announced, lastPass,
                tabVars, finderVars, unitVars, markVars>>

\* The 500 ms wait is over, no flag to write: click, focus or activate
SettledAct(c) ==
  /\ cyc[c].pc = "settle"
  /\ LET action == ChooseAction(cyc[c].command, Markup(cyc[c].element).tagName)
     IN  /\ ~(action = "click" /\ NavigatesAway(cyc[c].element))
         /\ Act(c, action)
  /\ UNCHANGED <<dom, created, domChanges, flag, stored, initPc, settings,
                fsPc, pendingSummary, autoSpeakOnLoad, currentElements,
                bgSpeaking, flagAtLoad, announced, lastPass, tabVars, finderVars, unitVars, markVars>>

\* ------------------------------------------------------------ the page
DomNext ==
  \/ \E pos \in 1..(MaxNodes + 1), visible \in BOOLEAN : DomInsert(pos, visible)
  \/ \E pos \in 1..MaxNodes : DomRemove(pos)
  \/ \E pos \in 1..MaxNodes : DomToggle(pos)

\* Steps the browser takes by itself once they are due: storage callbacks,
\* timers, the end of an utterance
ScriptStep ==
  \/ InitLoadSettings
  \/ InitGetFlag
  \/ InitRemoveFlag
  \/ FetchSummaryStart
  \/ HighlightExpires
  \/ \E c \in Cycles : SummarySpoken(c)
  \/ \E c \in Cycles : ListeningSpoken(c)
  \/ \E c \in Cycles : NoElementsSpoken(c)
  \/ \E c \in Cycles : FoundSpoken(c)
  \/ \E c \in Cycles : SettledSetFlag(c)
  \/ \E c \in Cycles : FlagSetClick(c)
  \/ \E c \in Cycles : SettledAct(c)

\* What the user and the recogniser do
UserStep ==
  \/ \E c \in Cycles : KeydownAltA(c)
  \/ KeydownEscape
  \/ \E c \in Cycles : OnMessageStart(c)
  \/ \E c \in Cycles, error \in CaptureErrors : CaptureError(c, error)
  \/ \E c \in Cycles, command \in Commands : Recognised(c, command)

\* What the backend's answers, or their failure, lead to
BackendStep ==
  \/ \E out \in AnalyzeOutcomes : FetchSummaryReply(out)
  \/ \E c \in Cycles, net \in NetOutcomes :
       \E model \in ModelOutcomes(Len(cyc[c].elements)) :
         FindElementSettles(c, net, model)

Next == DomNext \/ ScriptStep \/ UserStep \/ BackendStep

Spec == Init /\ [][Next]_vars

\* ------------------------------------------------------ a page loading
\* The documents of LoadSpec: none of the nodes, or a button and a link
LoadDoms == {<<>>, <<TRUE, TRUE>>}

\* LoadSpec: the flag and the stored settings as anything an earlier page
\* or the popup may have left; the document does not change
LoadInit ==
  /\ flag \in BOOLEAN
  /\ stored \in [enabled : BOOLEAN, autoSummary : BOOLEAN]
  /\ \E visible \in LoadDoms : PageStart(visible)
  /\ TabsIdle
  /\ UnitsIdle
  /\ FinderIdle

LoadNext == ScriptStep \/ UserStep \/ BackendStep \/ BgSpeechEnds

LoadSpec == LoadInit /\ [][LoadNext]_vars

\* The event loop runs every due step; nothing obliges the backend to
\* answer or the user to act
ScriptFairness ==
  /\ WF_vars(InitLoadSettings)
  /\ WF_vars(InitGetFlag)
  /\ WF_vars(InitRemoveFlag)
  /\ WF_vars(FetchSummaryStart)
  /\ WF_vars(HighlightExpires)
  /\ WF_vars(BgSpeechEnds)
  /\ \A c \in Cycles :
       /\ WF_vars(SummarySpoken(c))
       /\ WF_vars(ListeningSpoken(c))
       /\ WF_vars(NoElementsSpoken(c))
       /\ WF_vars(FoundSpoken(c))
       /\ WF_vars(SettledSetFlag(c))
       /\ WF_vars(FlagSetClick(c))
       /\ WF_vars(SettledAct(c))

FairLoadSpec == LoadSpec /\ ScriptFairness

\* ------------------------------------- several initialisations, one flag
\* TabsSpec: the content scripts of MaxTabs tabs or frames run init() against
\* the one chrome.storage.local.  tabs[t] is where tab t's init() stands;
\* writes counts the writes of the flag, reads the initialisations that read
\* it as set.
Tabs == 1..MaxTabs

TabsInit ==
  /\ flag = FALSE
  /\ stored = DefaultSettings
  /\ PageStart(<<>>)
  /\ TabsIdle
  /\ UnitsIdle
  /\ FinderIdle

\* A document starts loading in tab t: a new content script
TabLoad(t) ==
  /\ tabs[t] \in {"closed", "done", "disabled"}
  /\ tabs' = [tabs EXCEPT ![t] = "start"]
  /\ viaClick' = [viaClick EXCEPT ![t] = FALSE]
  /\ UNCHANGED <<pageVars, flag, stored, writes, reads, finderVars, unitVars>>

\* init() in tab t, lines 26-35
TabLoadSettings(t) ==
  /\ tabs[t] = "start"
  /\ tabs' = [tabs EXCEPT ![t] = IF stored.enabled THEN "getFlag" ELSE "disabled"]
  /\ UNCHANGED <<pageVars, flag, stored, writes, reads, viaClick, finderVars, unitVars>>

\* init() in tab t, line 38-39: chrome.storage.local.get('autoSpeak')
TabGetFlag(t) ==
  /\ tabs[t] = "getFlag"
  /\ IF flag
     THEN /\ tabs' = [tabs EXCEPT ![t] = "removeFlag"]
          /\ reads' = reads + 1
     ELSE /\ tabs' = [tabs EXCEPT ![t] = "done"]
          /\ UNCHANGED reads
  /\ UNCHANGED <<pageVars, flag, stored, writes, viaClick, finderVars, unitVars>>

\* init() in tab t, lines 40-41: chrome.storage.local.remove('autoSpeak')
TabRemoveFlag(t) ==
  /\ tabs[t] = "removeFlag"
  /\ flag' = FALSE
  /\ tabs' = [tabs EXCEPT ![t] = "done"]
  /\ UNCHANGED <<pageVars, stored, writes, reads, viaClick, finderVars, unitVars>>

\* interactWithElement in tab t, lines 398-401: a voice-commanded click on a
\* link writes the flag; the link's destination then loads in the tab
TabClickLink(t) ==
  /\ tabs[t] = "done"
  /\ writes < MaxWrites
  /\ flag' = TRUE
  /\ writes' = writes + 1
  /\ tabs' = [tabs EXCEPT ![t] = "start"]
  /\ viaClick' = [viaClick EXCEPT ![t] = TRUE]
  /\ UNCHANGED <<pageVars, stored, reads, finderVars, unitVars>>

TabsNext ==
  \/ \E t \in Tabs : TabLoad(t)
  \/ \E t \in Tabs : TabLoadSettings(t)
  \/ \E t \in Tabs : TabGetFlag(t)
  \/ \E t \in Tabs : TabRemoveFlag(t)
  \/ \E t \in Tabs : TabClickLink(t)

TabsSpec == TabsInit /\ [][TabsNext]_vars

\* ------------------------------------------- POST /api/find-element alone
\* FinderSpec: one request, drawn from the bounded requests, and its reply.
CommandChars == {"A", "b"}
LabelChars == {"a", "B"}

\* Candidate records as the route reads them: text and ariaLabel
FinderCandidates ==
  {[index |-> 0, tag |-> "button", text |-> t, ariaLabel |-> <<>>, el |-> NoEl] :
     t \in Strs(LabelChars, MaxLen)}
  \cup {[index |-> 0, tag |-> "button", text |-> t, ariaLabel |-> <<"a">>, el |-> NoEl] :
     t \in {<<>>, <<"B">>}}

RECURSIVE ListsOfLen(_, _)
ListsOfLen(S, n) ==
  IF n = 0 THEN {<<>>}
  ELSE {Append(l, x) : l \in ListsOfLen(S, n - 1), x \in S}

\* The buttons and commands of the documented examples
SignIn == <<"S", "i", "g", "n", " ", "I", "n">>
Register == <<"R", "e", "g", "i", "s", "t", "e", "r">>
ClickSignIn == <<"c", "l", "i", "c", "k", " ", "s", "i", "g", "n", " ", "i", "n">>
ClickNowhere == <<"c", "l", "i", "c", "k", " ", "n", "o", "w", "h", "e", "r", "e">>

ExampleElements ==
  <<[index |-> 0, tag |-> "button", text |-> SignIn, ariaLabel |-> <<>>, el |-> NoEl],
    [index |-> 1, tag |-> "button", text |-> Register, ariaLabel |-> <<>>, el |-> NoEl]>>

ExampleRequests ==
  [command : {ClickSignIn, ClickNowhere},
   elements : {ExampleElements},
   model : {[throws |-> TRUE, content |-> <<>>]}]

BoundedRequests ==
  [command : Strs(CommandChars, MaxLen),
   elements : UNION {ListsOfLen(FinderCandidates, n) : n \in 0..MaxList},
   model : {[throws |-> TRUE, content |-> <<>>],
            [throws |-> FALSE, content |-> <<"1">>],
            [throws |-> FALSE, content |-> <<"n", "o">>]}]

\* Replies of the ranking model: numbers in and out of range, the
\* sentinel, other negatives, text, a number with text around it
RankingReplies ==
  { <<"0">>, <<"1">>, <<"2">>, <<"9">>, <<"1", "0">>, <<"-", "1">>,
    <<"-", "2">>, <<>>, <<"n", "o">>, <<" ", "1", " ">>, <<"1", "a">>,
    <<"a", "1">> }

RankingRequests ==
  [command : {<<"A">>},
   elements : UNION {ListsOfLen({c \in FinderCandidates : Len(c.text) = 1}, n) :
                       n \in 1..MaxList},
   model : {[throws |-> FALSE, content |-> r] : r \in RankingReplies}]

FinderRequests == BoundedRequests \cup ExampleRequests \cup RankingRequests

FinderInit ==
  /\ flag = FALSE
  /\ stored = DefaultSettings
  /\ PageStart(<<>>)
  /\ TabsIdle
  /\ UnitsIdle
  /\ req \in FinderRequests
  /\ resp = <<>>

\* The route handles the request and answers
FinderPost ==
  /\ resp = <<>>
  /\ resp' = <<RouteFindElement(req.command, req.elements, req.model)>>
  /\ UNCHANGED <<pageVars, flag, stored, tabVars, req, unitVars>>

FinderNext == FinderPost

FinderSpec == FinderInit /\ [][FinderNext]_vars

\* ------------------------------------------- interactWithElement alone
\* ExecutorSpec: a document of one element, of any kind; a cycle has its
\* match for a command and its 'Found' message is being spoken.
ExecutorCommands ==
  { <<"a">>,
    <<"c", "l", "i", "c", "k", " ", "a">>,
    <<"C", "L", "I", "C", "K">>,
    <<"a", " ", "C", "l", "i", "c", "k">>,
    <<"S", "c", "l", "i", "c", "k">>,
    <<"c", "l", "i", "c">> }

ExecutorInit ==
  /\ flag = FALSE
  /\ stored = DefaultSettings
  /\ \E id \in 1..Len(NodeKinds), command \in ExecutorCommands :
       LET node == [id |-> id, vis |-> TRUE, idx |-> 0]
           elements == <<elementData(node, 0)>>
       IN  /\ dom = <<node>>
           /\ created = id
           /\ currentElements = elements
           /\ lastPass = elements
           /\ cyc = [c \in Cycles |->
                       IF c = 1
                       THEN [pc |-> "speakFound", command |-> command,
                             elements |-> elements, result |-> elements,
                             element |-> NoEl]
                       ELSE IdleCycle]
  /\ utterance = [text |-> "Found", by |-> 1]
  /\ domChanges = 0
  /\ initPc = "done"
  /\ settings = DefaultSettings
  /\ fsPc = "done"
  /\ pendingSummary = FALSE
  /\ autoSpeakOnLoad = FALSE
  /\ bgSpeaking = FALSE
  /\ marked = {}
  /\ highlightedElement = NoEl
  /\ timers = <<>>
  /\ acted = NoAct
  /\ scrolled = NoEl
  /\ flagAtLoad = FALSE
  /\ announced = FALSE
  /\ TabsIdle
  /\ UnitsIdle
  /\ FinderIdle

ExecutorNext ==
  \/ \E c \in Cycles : FoundSpoken(c)
  \/ \E c \in Cycles : SettledSetFlag(c)
  \/ \E c \in Cycles : FlagSetClick(c)
  \/ \E c \in Cycles : SettledAct(c)
  \/ HighlightExpires

ExecutorSpec == ExecutorInit /\ [][ExecutorNext]_vars

\* ------------------------------------------------- getElementText alone
\* LabelSpec: one element, drawn from the bounded markups, and its label.
LongText == [i \in 1..(TextCap + 1) |-> "x"]

\* An input is a void element (no text content); only the text-entry
\* fields have a placeholder.
LabelElements ==
  {el \in [tagName : {TagNames[i] : i \in 1..Len(TagNames)},
           ariaLabel : {<<>>, <<"L">>, LongText},
           textContent : {<<>>, <<" ">>, <<"t">>, <<" ", "t", " ">>, LongText},
           placeholder : {<<>>, <<"p">>},
           href : {<<>>}] :
     /\ el.tagName = "INPUT" => el.textContent = <<>>
     /\ el.tagName \notin {"INPUT", "TEXTAREA"} => el.placeholder = <<>>}

LabelInit ==
  /\ flag = FALSE
  /\ stored = DefaultSettings
  /\ PageStart(<<>>)
  /\ TabsIdle
  /\ FinderIdle
  /\ labelEl \in LabelElements
  /\ labelText = <<>>
  /\ AnalyzeIdle
  /\ VoiceIdle

\* The extractor calls getElementText(el)
LabelGet ==
  /\ labelText = <<>>
  /\ labelText' = <<getElementText(labelEl)>>
  /\ UNCHANGED <<pageVars, flag, stored, tabVars, finderVars, labelEl,
                 analyzeVars, voiceVars>>

LabelNext == LabelGet

LabelSpec == LabelInit /\ [][LabelNext]_vars

\* --------------------------------------------- POST /api/analyze-page alone
\* AnalyzeSpec: one request, drawn from the bounded requests, and its reply.
Letters ==
  <<"a", "b", "c", "d", "e", "f", "g", "h", "i", "j", "k", "l", "m", "n",
    "o", "p", "q", "r", "s", "t", "u", "v", "w", "x", "y", "z">>

\* The label at position i of a list of the given shape
ShapedText(shape, i) ==
  CASE shape = "letters" -> <<Letters[i]>>
    [] shape = "secondBlank" -> IF i = 2 THEN <<" ", " ">> ELSE <<Letters[i]>>
    [] shape = "firstEmpty" -> IF i = 1 THEN <<>> ELSE <<Letters[i]>>
    [] shape = "thirdsLong" ->
         IF i % 3 = 0 THEN [j \in 1..LabelLimit |-> Letters[i]]
         ELSE <<Letters[i]>>
    [] shape = "evensBlank" -> IF i % 2 = 0 THEN <<" ">> ELSE <<Letters[i]>>
    [] shape = "longest" -> [j \in 1..(LabelLimit - 1) |-> Letters[i]]

ListShapes ==
  {"letters", "secondBlank", "firstEmpty", "thirdsLong", "evensBlank",
   "longest"}

\* mainElements as fetchSummary sends them: type and text
ShapedElements(shape, n) ==
  [i \in 1..n |-> [type |-> "button", text |-> ShapedText(shape, i)]]

PageContents ==
  {<<>>, <<"c">>, [i \in 1..(PreviewLen + 1) |-> IF i = 1 THEN " " ELSE "c"]}

AnalyzeRequests ==
  {[pageContent |-> pc, pageTitle |-> pt,
    elements |-> ShapedElements(shape, n), throws |-> th] :
     pc \in PageContents, pt \in {<<>>, <<"T">>}, shape \in ListShapes,
     n \in 0..MaxElements, th \in BOOLEAN}

AnalyzeInit ==
  /\ flag = FALSE
  /\ stored = DefaultSettings
  /\ PageStart(<<>>)
  /\ TabsIdle
  /\ FinderIdle
  /\ LabelIdle
  /\ VoiceIdle
  /\ areq \in AnalyzeRequests
  /\ aresp = <<>>

\* The route handles the request and answers
AnalyzePost ==
  /\ aresp = <<>>
  /\ aresp' = <<RouteAnalyzePage(areq.pageContent, areq.pageTitle,
                                 areq.elements, areq.throws)>>
  /\ UNCHANGED <<pageVars, flag, stored, tabVars, finderVars, labelVars,
                 areq, voiceVars>>

AnalyzeNext == AnalyzePost

AnalyzeSpec == AnalyzeInit /\ [][AnalyzeNext]_vars

\* ------------------------------- VoiceManager.speak and stopAllSpeech alone
\* VoiceSpec: calls of speak() by the content script, 'speak' messages to
\* the background, Escape presses, and the synthesisers' events.  An
\* utterance is in its 100 ms "delay", then "queued" in or "speaking" on
\* window.speechSynthesis, and ends as "ended", "failed" (a synthesis
\* error), "interrupted" (cancelled while speaking) or "canceled" (removed
\* from the queue before speaking).
VoiceInit ==
  /\ flag = FALSE
  /\ stored = DefaultSettings
  /\ PageStart(<<>>)
  /\ TabsIdle
  /\ FinderIdle
  /\ LabelIdle
  /\ AnalyzeIdle
  /\ utterances = <<>>
  /\ ttsCalls = <<>>

\* this.synthesis.cancel(): the utterance being spoken gets the error
\* 'interrupted', for which onerror returns without resolving; a queued
\* one gets the error 'canceled', for which onerror resolves
synthesisCancel(us) ==
  [i \in 1..Len(us) |->
     IF us[i].state = "speaking"
     THEN [us[i] EXCEPT !.state = "interrupted"]
     ELSE IF us[i].state = "queued"
     THEN [us[i] EXCEPT !.state = "canceled", !.resolved = TRUE]
     ELSE us[i]]

\* speak(text) up to its setTimeout
VoiceSpeak ==
  /\ Len(utterances) < MaxUtterances
  /\ utterances' = Append(synthesisCancel(utterances),
                          [state |-> "delay", resolved |-> FALSE,
                           old |-> FALSE])
  /\ UNCHANGED <<pageVars, flag, stored, tabVars, finderVars, labelVars,
                 analyzeVars, ttsCalls>>

\* The 100 ms timer of the oldest delayed call fires:
\* this.synthesis.speak(utterance)
VoiceDelayElapses ==
  \E i \in 1..Len(utterances) :
    /\ utterances[i].state = "delay"
    /\ \A j \in 1..(i - 1) : utterances[j].state # "delay"
    /\ utterances' =
         [utterances EXCEPT ![i].state =
            IF \E j \in 1..Len(utterances) :
                 utterances[j].state \in {"speaking", "queued"}
            THEN "queued" ELSE "speaking"]
    /\ UNCHANGED <<pageVars, flag, stored, tabVars, finderVars, labelVars,
                   analyzeVars, ttsCalls>>

\* The synthesiser takes the oldest queued utterance, if any
StartNextQueued(us) ==
  IF \E j \in 1..Len(us) : us[j].state = "queued"
  THEN [us EXCEPT ![CHOOSE j \in 1..Len(us) :
                      /\ us[j].state = "queued"
                      /\ \A k \in 1..(j - 1) : us[k].state # "queued"].state
                    = "speaking"]
  ELSE us

\* utterance.onend, or utterance.onerror with an error other than
\* 'interrupted': resolve()
VoiceUtteranceEnds(outcome) ==
  \E i \in 1..Len(utterances) :
    /\ utterances[i].state = "speaking"
    /\ utterances' =
         StartNextQueued([utterances EXCEPT ![i].state = outcome,
                                            ![i].resolved = TRUE])
    /\ UNCHANGED <<pageVars, flag, stored, tabVars, finderVars, labelVars,
                   analyzeVars, ttsCalls>>

\* fetchSummary sends {action: 'speak'}; the background's listener calls
\* chrome.tts.getVoices(callback)
VoiceTtsSpeak ==
  /\ Len(ttsCalls) < MaxTts
  /\ ttsCalls' = Append(ttsCalls, [state |-> "voices", old |-> FALSE])
  /\ UNCHANGED <<pageVars, flag, stored, tabVars, finderVars, labelVars,
                 analyzeVars, utterances>>

\* The getVoices callback: chrome.tts.speak(text, options), which
\* interrupts what chrome.tts is speaking
VoiceTtsVoices ==
  \E i \in 1..Len(ttsCalls) :
    /\ ttsCalls[i].state = "voices"
    /\ \A j \in 1..(i - 1) : ttsCalls[j].state # "voices"
    /\ ttsCalls' =
         [j \in 1..Len(ttsCalls) |->
            IF j = i THEN [ttsCalls[j] EXCEPT !.state = "speaking"]
            ELSE IF ttsCalls[j].state = "speaking"
            THEN [ttsCalls[j] EXCEPT !.state = "stopped"]
            ELSE ttsCalls[j]]
    /\ UNCHANGED <<pageVars, flag, stored, tabVars, finderVars, labelVars,
                   analyzeVars, utterances>>

\* chrome.tts finishes its utterance
VoiceTtsEnds ==
  \E i \in 1..Len(ttsCalls) :
    /\ ttsCalls[i].state = "speaking"
    /\ ttsCalls' = [ttsCalls EXCEPT ![i].state = "ended"]
    /\ UNCHANGED <<pageVars, flag, stored, tabVars, finderVars, labelVars,
                   analyzeVars, utterances>>

\* keydown Escape: stopAllSpeech(): voiceManager.stopSpeaking() and the
\* message {action: 'stopSpeaking'}, on which the background calls
\* chrome.tts.stop()
VoiceEscape ==
  /\ utterances # <<>> \/ ttsCalls # <<>>
  /\ utterances' =
       [i \in 1..Len(utterances) |->
          [synthesisCancel(utterances)[i] EXCEPT !.old = TRUE]]
  /\ ttsCalls' =
       [i \in 1..Len(ttsCalls) |->
          [state |-> IF ttsCalls[i].state = "speaking" THEN "stopped"
                     ELSE ttsCalls[i].state,
           old |-> TRUE]]
  /\ UNCHANGED <<pageVars, flag, stored, tabVars, finderVars, labelVars,
                 analyzeVars>>

VoiceNext ==
  \/ VoiceSpeak
  \/ VoiceDelayElapses
  \/ \E outcome \in {"ended", "failed"} : VoiceUtteranceEnds(outcome)
  \/ VoiceTtsSpeak
  \/ VoiceTtsVoices
  \/ VoiceTtsEnds
  \/ VoiceEscape

VoiceSpec == VoiceInit /\ [][VoiceNext]_vars

\* The timers fire and the synthesisers get through their utterances
FairVoiceSpec ==
  /\ VoiceSpec
  /\ WF_vars(VoiceDelayElapses)
  /\ WF_vars(\E outcome \in {"ended", "failed"} : VoiceUtteranceEnds(outcome))
  /\ WF_vars(VoiceTtsVoices)
  /\ WF_vars(VoiceTtsEnds)

\* Weak fairness on the backend's replies as well: every request is answered
AnsweredLoadSpec == FairLoadSpec /\ WF_vars(BackendStep)

\* ---------------------------------------------------------- properties
\* What interactWithElement says once it has acted
ActedTexts ==
  {"Clicked.", "Focused on input field. You can now type.", "Activated."}

\* C1: the element interactWithElement clicks or focuses is the element that
\* carried the matched candidate's index in the snapshot sent to the matcher
\* for that command, whatever extraction passes ran in between.
ActsOnMatchedElement ==
  [][\A c \in Cycles :
       (/\ cyc[c].pc \in {"settle", "flagSet"}
        /\ cyc'[c].pc = "idle"
        /\ utterance'.text \in ActedTexts)
       => cyc[c].element = cyc[c].result[1].el]_vars

\* C3: on a page loaded with the flag set (the extension enabled), the
\* script clears the flag and eventually sends the summary and the prompt
\* to be spoken, with no key pressed and no popup message: the flag is
\* eventually clear, and the announcement is eventually made.
FlagLeadsToAnnouncement ==
  /\ (flagAtLoad /\ stored.enabled) ~> ~flag
  /\ (flagAtLoad /\ stored.enabled) ~> announced

\* C4: a failed request to the ranking backend is never surfaced: the error
\* message of processVoiceCommand's catch is never spoken.
NoErrorSpoken == utterance.text # "Error processing your command"

\* C5: no remote call is awaited forever: the summarisation call of
\* fetchSummary and the matching call of each cycle are eventually over.
RemoteCallsBounded ==
  /\ (fsPc = "await") ~> (fsPc # "await")
  /\ \A c \in Cycles : (cyc[c].pc = "awaitFind") ~> (cyc[c].pc # "awaitFind")

\* C6: the candidates one extraction pass returns carry the indices
\* 0..n-1, in document order.
IndicesContiguous ==
  \A i \in 1..Len(lastPass) : lastPass[i].index = i - 1

\* C7: no two nodes of the document carry the same data-accessibility-index,
\* and every tagged node carries the index the most recent pass gave it.
TagsUniqueAndCurrent ==
  /\ \A i, j \in 1..Len(dom) :
       (i # j /\ dom[i].idx # NoIdx) => dom[i].idx # dom[j].idx
  /\ \A i \in 1..Len(dom) :
       dom[i].idx # NoIdx =>
         \E k \in 1..Len(lastPass) :
           lastPass[k].el = dom[i].id /\ lastPass[k].index = dom[i].idx

\* C8: a found candidate's index attribute is a valid index into the list
\* that was passed to the matcher.
FoundIndexInList ==
  \A c \in Cycles :
    cyc[c].pc = "speakFound" =>
      /\ 0 <= cyc[c].result[1].index
      /\ cyc[c].result[1].index < Len(cyc[c].elements)

\* C10: apiClient.findElement is never awaited with an empty candidate list.
MatcherNeverGivenEmptyList ==
  \A c \in Cycles : cyc[c].pc = "awaitFind" => cyc[c].elements # <<>>

\* C2: no more initialisations read the autoSpeak flag as set than there
\* were writes of it.
FlagReadOncePerWrite == reads <= writes

\* The label the rule reads: the text, else the ariaLabel, else nothing,
\* in lower case
LabelOf(el) ==
  toLowerCase(IF el.text # <<>> THEN el.text ELSE el.ariaLabel)

\* s occurs in t
IsSubstring(s, t) ==
  \E from \in 1..(Len(t) + 1), to \in 0..Len(t) :
    /\ to - from + 1 = Len(s)
    /\ \A k \in 1..Len(s) : t[from + k - 1] = s[k]

\* The positions (1-based) of a request's candidates that satisfy the rule
RulePositions(r) ==
  {i \in 1..Len(r.elements) :
     \/ IsSubstring(LabelOf(r.elements[i]), toLowerCase(r.command))
     \/ IsSubstring(toLowerCase(r.command), LabelOf(r.elements[i]))}

\* C9: when the model call fails, the reply names the candidate at the
\* lowest list position whose lower-cased label is a substring of the
\* lower-cased command or contains it, and is found=false when no candidate
\* satisfies this; [Sign In, Register] with "click sign in" gives position
\* 0 and with "click nowhere" gives found=false.
FallbackSubstringRule ==
  (resp # <<>> /\ req.model.throws /\ req.command # <<>> /\ req.elements # <<>>)
  => LET body == resp[1].body
         hits == RulePositions(req)
     IN  /\ resp[1].success
         /\ body.found <=> hits # {}
         /\ body.found =>
              /\ body.elementIndex + 1 \in hits
              /\ \A i \in hits : body.elementIndex + 1 <= i
              /\ body.element = <<req.elements[body.elementIndex + 1]>>
         /\ (req.elements = ExampleElements /\ req.command = ClickSignIn)
              => (body.found /\ body.elementIndex = 0)
         /\ (req.elements = ExampleElements /\ req.command = ClickNowhere)
              => ~body.found

\* The fallback passed over a labelled candidate and matched the next one,
\* by its ariaLabel, against a command with an upper-case letter
FallbackMatchedLater ==
  /\ resp # <<>>
  /\ req.model.throws
  /\ resp[1].body.found
  /\ resp[1].body.elementIndex = 1
  /\ req.elements[1].text # <<>>
  /\ req.elements[2].text = <<>>
  /\ req.elements[2].ariaLabel # <<>>
  /\ req.command # toLowerCase(req.command)

\* C11: at most one element carries the accessibility-highlight marker, and
\* it is the element highlightedElement refers to.
OneHighlight ==
  /\ Cardinality(marked) <= 1
  /\ \A element \in marked : element = highlightedElement

\* An element was highlighted while the timer of another was pending, and
\* it alone is marked
HighlightedOverAnother ==
  /\ Len(timers) = 2
  /\ timers[1] # timers[2]
  /\ marked = {timers[2]}
  /\ highlightedElement = timers[2]

\* C12: while the timer armed by the latest call of highlightElement is
\* pending (its 3 s are not over), the element of that call is marked.
MarkedUntilOwnTimer ==
  timers # <<>> => timers[Len(timers)] \in marked

\* The command contains "click", in any mix of cases
ContainsClick(command) ==
  \E i \in 1..(Len(command) - 4) :
    /\ command[i] \in {"c", "C"}
    /\ command[i + 1] \in {"l", "L"}
    /\ command[i + 2] \in {"i", "I"}
    /\ command[i + 3] \in {"c", "C"}
    /\ command[i + 4] \in {"k", "K"}

\* C13: interactWithElement clicks if the command contains "click" in any
\* case or the element is a BUTTON or an A; otherwise it focuses, without
\* clicking, an INPUT or a TEXTAREA; otherwise it clicks.
ActionChosen ==
  [][\A c \in Cycles :
       (cyc[c].pc \in {"settle", "flagSet"} /\ acted' # NoAct)
       => LET tagName == Markup(cyc[c].element).tagName
          IN  /\ acted'.el = cyc[c].element
              /\ acted'.method =
                   IF ContainsClick(cyc[c].command) \/ tagName \in {"BUTTON", "A"}
                   THEN "click"
                   ELSE IF tagName \in {"INPUT", "TEXTAREA"} THEN "focus"
                   ELSE "click"]_vars

\* An element that is no button, link or text field was clicked on a
\* command without "click"
ActivatedOther ==
  /\ acted.method = "click"
  /\ Markup(acted.el).tagName = "SELECT"
  /\ utterance.text = "Activated."

\* C14: on a text input the outcome is focus, and the element is not
\* clicked, whatever the command.
InputOnlyFocused ==
  (acted # NoAct /\ Markup(acted.el).tagName = "INPUT")
  => acted.method = "focus"

\* The element is a link whose destination is not a script pseudo-URL
IsNavigatingLink(el) ==
  /\ Markup(el).tagName = "A"
  /\ Len(Markup(el).href) > 0
  /\ ~(/\ Len(Markup(el).href) >= 10
       /\ SubSeq(Markup(el).href, 1, 10)
            = <<"j", "a", "v", "a", "s", "c", "r", "i", "p", "t">>)

\* C15: interactWithElement writes the autoSpeak flag exactly when the
\* element it acts on is a link whose destination is not a script
\* pseudo-URL, the write is made before the click, and no other step sets
\* the flag.
FlagWrittenForLinksOnly ==
  [][/\ \A c \in Cycles :
          (cyc[c].pc \in {"settle", "flagSet"} /\ acted' # NoAct)
          => IF IsNavigatingLink(cyc[c].element)
             THEN flag /\ cyc[c].pc = "flagSet" /\ acted'.method = "click"
             ELSE ~flag /\ ~flag'
     /\ (flag' # flag)
          => /\ flag'
             /\ acted' = NoAct
             /\ \E c \in Cycles :
                  /\ cyc[c].pc = "settle"
                  /\ cyc'[c].pc = "flagSet"
                  /\ IsNavigatingLink(cyc[c].element)]_vars

\* A link was clicked with the flag written
LinkClickedAfterFlag ==
  /\ flag
  /\ acted.method = "click"
  /\ IsNavigatingLink(acted.el)

\* C16: at most one utterance is in flight, counting the page's synthesiser
\* and the background's TTS: the background never speaks while a cycle
\* awaits the end of an utterance of the page.
OneUtteranceInFlight == ~(bgSpeaking /\ utterance.by # 0)

\* C17: at most one voice-command cycle is in progress.
OneCycleInProgress ==
  Cardinality({c \in Cycles : cyc[c].pc # "idle"}) <= 1

\* Nothing is being spoken, no cycle is in progress and none has left the
\* flag written
Untriggered ==
  /\ utterance = Silence
  /\ ~bgSpeaking
  /\ \A c \in Cycles : cyc[c].pc = "idle"
  /\ ~flag
  /\ ~autoSpeakOnLoad

CycleStepsInOrder ==
  [][\A c \in Cycles :
       LET p == cyc[c].pc
           q == cyc'[c].pc
       IN  /\ (p = "idle" /\ q # "idle")
                => q = IF pendingSummary THEN "speakSummary" ELSE "speakListening"
           /\ (p = "speakSummary" /\ q \notin {"speakSummary", "idle"})
                => (q = "speakListening" /\ ~pendingSummary')
           /\ (p = "speakListening" /\ q \notin {"speakListening", "idle"})
                => /\ \A i \in 1..Len(currentElements') :
                        /\ dom[currentElements'[i].index + 1].vis
                        /\ dom[currentElements'[i].index + 1].id
                             = currentElements'[i].el
                   /\ Len(currentElements')
                        = Cardinality({i \in 1..Len(dom) : dom[i].vis})
                   /\ IF currentElements' = <<>>
                      THEN q = "speakNoElements"
                      ELSE q = "listening"
           /\ (q = "listening" /\ p # "listening") => p = "speakListening"
           /\ (q = "speakNoElements" /\ p # q) => p = "speakListening"
           /\ (p = "speakNoElements" /\ q # p) => q = "idle"
           /\ (p = "listening" /\ q # p) => q \in {"idle", "awaitFind"}]_vars

\* Capture has started, after the summary and the prompt, with candidates
ListeningAfterSummary ==
  \E c \in Cycles :
    /\ cyc[c].pc = "listening"
    /\ currentElements # <<>>
    /\ fsPc = "done"
    /\ ~pendingSummary
    /\ utterance = Silence

CouldNotInteract == "Element found but could not interact with it."

\* No node of the document carries the index of cycle c's match
NoNodeCarriesMatch(c) ==
  \A i \in 1..Len(dom) : dom[i].idx # cyc[c].result[1].index

\* C20: when no node carries the matched candidate's index, the cycle does
\* not go on to interact and, when it resumes after its result message, it
\* speaks the "found but could not interact" message; the step that speaks
\* that message highlights nothing, clicks and focuses nothing and leaves
\* the flag alone.
NoActionWithoutNode ==
  [][/\ \A c \in Cycles :
          (cyc[c].pc = "speakFound" /\ NoNodeCarriesMatch(c))
          => /\ cyc'[c].pc \in {"speakFound", "idle"}
             /\ ( /\ utterance.by = c
                  /\ cyc'[c].pc = "idle"
                  /\ utterance'.by = 0
                  /\ utterance' # Silence
                  /\ \A d \in Cycles \ {c} : cyc'[d] = cyc[d] )
                => utterance'.text = CouldNotInteract
     /\ (utterance'.text = CouldNotInteract /\ utterance' # utterance)
          => /\ UNCHANGED <<marked, highlightedElement, timers, flag, dom>>
             /\ acted' = NoAct
             /\ scrolled' = NoEl
             /\ \E c \in Cycles :
                  /\ cyc[c].pc = "speakFound"
                  /\ NoNodeCarriesMatch(c)
                  /\ cyc'[c].pc = "idle"]_vars

\* The message was spoken for a match whose node had left the document
CouldNotInteractSpoken ==
  /\ utterance.text = CouldNotInteract
  /\ lastPass # <<>>
  /\ dom = <<>>

\* C21: the text of a candidate is a string of at most 100 characters,
\* also for an element that has an aria-label.
TextWithinCap ==
  labelText # <<>> => Len(labelText[1]) <= TextCap

\* The label the priority order resolves for an element, before truncation
ResolvedLabel(el) ==
  IF el.ariaLabel # <<>> THEN el.ariaLabel
  ELSE IF trim(el.textContent) # <<>> THEN trim(el.textContent)
  ELSE IF el.tagName \in {"INPUT", "TEXTAREA"} THEN el.placeholder
  ELSE <<>>

\* C30: the label is the aria-label if present, else the visible text if
\* non-empty, else the placeholder of an input or textarea, else the empty
\* string (as resolved, or cut to the cap).
LabelPriority ==
  labelText # <<>> =>
    \/ labelText[1] = ResolvedLabel(labelEl)
    \/ labelText[1] = substring(ResolvedLabel(labelEl), TextCap)

\* C22: when the model call throws, for a command and a non-empty list,
\* the route answers 200 with success = true and a defined found: true
\* with an element of the list, or false with a message.
FallbackAlwaysAnswers ==
  (resp # <<>> /\ req.command # <<>> /\ req.elements # <<>>
     /\ req.model.throws)
  => /\ resp[1].status = 200
     /\ resp[1].success
     /\ IF resp[1].body.found
        THEN /\ resp[1].body.element # <<>>
             /\ \E i \in 1..Len(req.elements) :
                  resp[1].body.element[1] = req.elements[i]
        ELSE /\ resp[1].body.element = <<>>
             /\ resp[1].body.message # ""

\* The model call threw and the fallback found no match in a non-empty list
FallbackAnsweredNoMatch ==
  /\ resp # <<>>
  /\ req.model.throws
  /\ req.command # <<>>
  /\ req.elements # <<>>
  /\ resp[1].status = 200
  /\ ~resp[1].body.found

\* C29: the ranking model's reply r for a list of n candidates gives
\* found = true with the element at position r exactly when r parses as an
\* integer with 0 <= r < n; the sentinel -1, any other integer out of range
\* and a reply that is no number all give the same no-match result.
RankingReplyRule ==
  (resp # <<>> /\ req.command # <<>> /\ req.elements # <<>>
     /\ ~req.model.throws)
  => LET r == parseInt(trim(req.model.content))
         n == Len(req.elements)
     IN  IF ~r.nan /\ 0 <= r.n /\ r.n < n
         THEN /\ resp[1].body.found
              /\ resp[1].body.element = <<req.elements[r.n + 1]>>
              /\ resp[1].body.elementIndex = r.n
         ELSE resp[1].body = NoMatch("No matching element found")

\* A reply that is a number past the end of the list was answered no-match
RankedPastTheEnd ==
  /\ resp # <<>>
  /\ req.elements # <<>>
  /\ ~req.model.throws
  /\ ~parseInt(trim(req.model.content)).nan
  /\ parseInt(trim(req.model.content)).n >= Len(req.elements)
  /\ ~resp[1].body.found

\* A label that is not blank and is shorter than 50 characters
IsValidLabel(text) ==
  /\ \E i \in 1..Len(text) : text[i] # " "
  /\ Len(text) <= 49

\* C26: when the summarisation fails, the route answers success = true
\* with a fallback summary that names the page title and lists at most 20
\* labels: the first 20 valid labels of the request, in request order.
FallbackSummaryLists ==
  (aresp # <<>> /\ areq.pageContent # <<>> /\ areq.pageTitle # <<>>
     /\ areq.throws)
  => /\ aresp[1].status = 200
     /\ aresp[1].success
     /\ aresp[1].summary # <<>>
     /\ LET summary == aresp[1].summary[1]
            valid == {i \in 1..Len(areq.elements) :
                        IsValidLabel(areq.elements[i].text)}
            shown == {i \in valid :
                        Cardinality({j \in valid : j < i}) < 20}
        IN  /\ summary.usedFallback
            /\ summary.title = areq.pageTitle
            /\ Len(summary.labels) <= 20
            /\ Len(summary.labels) = Cardinality(shown)
            /\ \A i \in shown :
                 summary.labels[Cardinality({j \in shown : j < i}) + 1]
                   = areq.elements[i].text

\* A fallback summary listing 20 labels of a longer list, having skipped
\* an invalid label among them
ListedTwentySkippingOne ==
  /\ aresp # <<>>
  /\ areq.throws
  /\ aresp[1].summary # <<>>
  /\ Len(aresp[1].summary[1].labels) = 20
  /\ aresp[1].summary[1].more > 0
  /\ \E i \in 1..20 : ~IsValidLabel(areq.elements[i].text)

NoSpeechMessage == "No voice command detected. Please try again."
NotAllowedMessage == "Microphone access denied."

\* C25: the no-speech and the not-allowed capture errors each speak their
\* own message; a step that ends a capture without a command leaves that
\* cycle over, and after an error message no capture is active (isListening
\* is false); capture starts again only in a cycle the user triggered.
CaptureErrorEndsCapture ==
  [][/\ NoSpeechMessage # NotAllowedMessage
     /\ \A c \in Cycles :
          (cyc[c].pc = "listening" /\ cyc'[c].pc # "listening")
          => /\ cyc'[c].pc \in {"idle", "awaitFind"}
             /\ cyc'[c].pc = "idle"
                => /\ utterance' \in {[text |-> NoSpeechMessage, by |-> 0],
                                      [text |-> NotAllowedMessage, by |-> 0],
                                      utterance, Silence}
                   /\ \A d \in Cycles :
                        cyc'[d].pc = "listening" => cyc[d].pc = "speakListening"
     /\ (utterance' # utterance
           /\ utterance'.text \in {NoSpeechMessage, NotAllowedMessage})
        => /\ utterance'.by = 0
           /\ \E c \in Cycles : cyc[c].pc = "listening" /\ cyc'[c].pc = "idle"
           /\ \A d \in Cycles : cyc'[d].pc # "listening"
     /\ \A c \in Cycles :
          (cyc[c].pc = "idle" /\ cyc'[c].pc # "idle")
          => cyc'[c].pc \in {"speakSummary", "speakListening"}]_vars

\* The permission message was spoken after a capture error
MicrophoneDeniedSpoken ==
  /\ utterance = [text |-> NotAllowedMessage, by |-> 0]
  /\ \A c \in Cycles : cyc[c].pc # "listening"
  /\ currentElements # <<>>

\* C23: no step of the content script's pipeline ends in a fault nobody
\* handles; here, init() never ends with its promise rejected.
NoUnhandledFault == initPc # "rejected"

\* C28: the cached summary is spoken by at most one trigger; in particular
\* no trigger starts speaking it while an earlier trigger's cycle is
\* speaking it.
SummarySpokenByOneTrigger ==
  [][\A c \in Cycles :
       (cyc[c].pc # "speakSummary" /\ cyc'[c].pc = "speakSummary")
       => \A d \in Cycles : cyc[d].pc # "speakSummary"]_vars

\* C24: after an Escape, no utterance requested before it is playing, on
\* the page's synthesiser or on the background's: those in progress were
\* stopped and none starts afterwards.
EscapeSilencesEarlier ==
  /\ \A i \in 1..Len(utterances) :
       utterances[i].old => utterances[i].state # "speaking"
  /\ \A i \in 1..Len(ttsCalls) :
       ttsCalls[i].old => ttsCalls[i].state # "speaking"

\* C27: every call of speak() that a cycle awaits signals completion in
\* the end (its promise resolves), also when the utterance is preempted by
\* another or cancelled by Escape.
SpeechAlwaysCompletes ==
  \A i \in 1..MaxUtterances :
    (Len(utterances) >= i) ~> (Len(utterances) >= i /\ utterances[i].resolved)

UnlabeledNeverMatched ==
  (resp # <<>> /\ req.model.throws /\ resp[1].body.found)
  => \/ resp[1].body.element[1].text # <<>>
     \/ resp[1].body.element[1].ariaLabel # <<>>

\* C33: the autoSpeak flag is consumed only by the load of the page reached
\* through the voice-commanded link click; an initialisation that reads the
\* flag as set runs in a document reached through such a click.
FlagConsumedByClickedLoad ==
  [][\A t \in 1..MaxTabs :
       (tabs[t] = "getFlag" /\ flag /\ tabs'[t] = "removeFlag")
         => viaClick[t]]_vars

\* C34: in a page whose initialisation found the extension disabled, no
\* voice-command cycle starts.
DisabledPageStartsNoCycle ==
  initPc = "disabled" => \A c \in Cycles : cyc[c].pc = "idle"
====
